---- MODULE Spec2Model ----
(***************************************************************************)
(* robot_debug_logger (src/main.py): a daemon of three loops.  The main    *)
(* thread runs main() and, inside it, monitor_robot_actions(); two         *)
(* threading.Thread objects run video_recorder_loop() and                  *)
(* periodic_datadog_uploader().  They share stop_event (threading.Event)   *)
(* and the file LOG_FILE_PATH.  Every action below is one step of one of   *)
(* the three threads between two points where another thread can run, or   *)
(* one step of the environment (the capture subprocess exiting, the remote *)
(* endpoint answering, a key event or Ctrl+C arriving).                    *)
(***************************************************************************)
EXTENDS Integers, Sequences, FiniteSets, TLC

VARIABLES
    stop_event,     \* threading.Event of main(): TRUE iff set
    mainPc,         \* where the main thread is in main()/monitor_robot_actions()
    monitorEnd,     \* how monitor_robot_actions() ended ("none" while it has not)
    logExists,      \* os.path.exists(LOG_FILE_PATH)
    logContent,     \* the text of LOG_FILE_PATH: a sequence of tokens
    now,            \* the wall clock, datetime.datetime.now()
    printed,        \* the log lines the last display_dashboard() printed
    lastOps,        \* the last two ActionLog operations applied, with results
    fileBuffer,     \* log_action: text written to f and not yet flushed
    pendingWrites,  \* log_action: os.write calls the close has still to make
    readPos,        \* upload_logs_to_datadog: tokens f.read() has consumed
    nEvents,        \* input events the monitor has handled
    pressed,        \* handled key_down events of mapped, non-control codes
    appended,       \* records written to the log by log_action
    failedWrites,   \* log_action calls that ended in the IOError branch
    videoPc,        \* where the video thread is in video_recorder_loop()
    proc,           \* the subprocess the local variable `proc` refers to
    orphans,        \* live capture subprocesses no longer referred to by `proc`
    rotated,        \* TRUE once a second capture has been started
    videoDir,       \* the entries of VIDEO_DIR_PATH
    pruned,         \* the files the last delete_old_videos() removed
    uploaderPc,     \* where the uploader thread is
    tick,           \* iterations done of `for _ in range(60)`
    log_content,    \* local variable of upload_logs_to_datadog
    uploadOutcome,  \* how the last upload cycle ended
    cycleWifi,      \* what is_wifi_connected() returned in the running cycle
    cycleExists,    \* what os.path.exists() returned in the running cycle
    sleepsAfterStop,\* time.sleep(10) calls completed with stop_event set
    clearPhase,     \* uploaderPc at the last clear of the running cycle
    preClearLog     \* the log as it was just before that clear

vars == << stop_event, mainPc, monitorEnd, logExists, logContent, now,
           printed, lastOps, fileBuffer, pendingWrites, readPos, nEvents,
           pressed, appended, failedWrites, videoPc, proc, orphans, rotated,
           videoDir, pruned,
           uploaderPc, tick, log_content, uploadOutcome, cycleWifi,
           cycleExists, sleepsAfterStop, clearPhase, preClearLog >>

mainVars  == << mainPc, monitorEnd >>
ioVars    == << fileBuffer, pendingWrites, readPos >>
logVars   == << logExists, logContent, now, printed, lastOps, ioVars >>
countVars == << nEvents, pressed, appended, failedWrites >>
videoVars == << videoPc, proc, orphans, rotated, videoDir, pruned >>
cycleVars == << cycleWifi, cycleExists, sleepsAfterStop >>
upVars    == << uploaderPc, tick, log_content, uploadOutcome, cycleVars >>
raceVars  == << clearPhase, preClearLog >>

----------------------------------------------------------------------------
(* Bounds of the model *)

\* input events the monitor handles in one run
MaxEvents == 3
\* iterations of the uploader's wait loop; stands for range(60)
WaitIncrements == 2

----------------------------------------------------------------------------
(* evdev constants used by the monitor *)

EV_SYN == 0
EV_KEY == 1
key_up == 0
key_down == 1
key_hold == 2

\* the {type, code, value} triples the device delivers in this model
EventTypes  == {EV_SYN, EV_KEY}
EventCodes  == {0, 2, 9}
EventValues == {key_up, key_down, key_hold}

----------------------------------------------------------------------------
(* BUTTON_MAPPINGS: a dict display; for a repeated key the last item wins *)

BUTTON_MAPPINGS_items ==
    << <<2, "intersection">>, <<3, "lane_departure">>, <<4, "slow_down">>,
       <<5, "intervention">>, <<6, "other">>,
       <<0, "display_dashboard">>, <<0, "clear_log_history">> >>

DictKeys(items) == { items[i][1] : i \in DOMAIN items }

LastIndexOf(items, k) ==
    CHOOSE i \in DOMAIN items :
        /\ items[i][1] = k
        /\ \A j \in DOMAIN items : items[j][1] = k => j <= i

DictDisplay(items) ==
    [ k \in DictKeys(items) |-> items[LastIndexOf(items, k)][2] ]

BUTTON_MAPPINGS == DictDisplay(BUTTON_MAPPINGS_items)

ControlLabels == {"display_dashboard", "clear_log_history"}

----------------------------------------------------------------------------
(* The text of the log file.  A token is the text of one log entry, or the *)
(* newline; `parses` says whether characters 1..19 of the entry are a      *)
(* timestamp strptime accepts, and `time` is that timestamp in days.       *)

NL == [time |-> 0, label |-> "LF", parses |-> FALSE]

\* the clock values and timestamps of the model, placed around the 7-day
\* cut of display_dashboard
Now0 == 9
ClockValues == {8, 9, 10}
LogTimes == {2, 10}

\* a line whose first characters are no timestamp, and a line whose bytes
\* are no text in the encoding the file is opened with
CorruptLine == [time |-> 0, label |-> "corrupt", parses |-> FALSE]
Undecodable == [time |-> 0, label |-> "undecodable", parses |-> FALSE]

\* f's decoder accepts the text
Decodes(text) == \A i \in 1..Len(text) : text[i] # Undecodable

Min(S) == CHOOSE x \in S : \A y \in S : x <= y

\* `for line in f`: the text cut after every newline; a last line without
\* newline is a line too.
RECURSIVE Lines(_)
Lines(text) ==
    IF text = << >>
    THEN << >>
    ELSE LET ends == { i \in 1..Len(text) : text[i] = NL }
         IN  IF ends = {}
             THEN << text >>
             ELSE << SubSeq(text, 1, Min(ends) - 1) >>
                     \o Lines(SubSeq(text, Min(ends) + 1, Len(text)))

----------------------------------------------------------------------------
Init ==
    /\ stop_event = FALSE
    /\ mainPc = "start_video"
    /\ monitorEnd = "none"
    /\ logExists \in BOOLEAN
    /\ logContent = << >>
    /\ now = Now0
    /\ printed = << >>
    /\ lastOps = << "none", "none" >>
    /\ fileBuffer = << >>
    /\ pendingWrites = << >>
    /\ readPos = 0
    /\ nEvents = 0
    /\ pressed = 0
    /\ appended = 0
    /\ failedWrites = 0
    /\ videoPc = "unstarted"
    /\ proc = "none"
    /\ orphans = 0
    /\ rotated = FALSE
    /\ videoDir = {}
    /\ pruned = {}
    /\ uploaderPc = "unstarted"
    /\ tick = 0
    /\ log_content = << >>
    /\ uploadOutcome = "none"
    /\ cycleWifi = "unchecked"
    /\ cycleExists = "unchecked"
    /\ sleepsAfterStop = 0
    /\ clearPhase = "none"
    /\ preClearLog = << >>

----------------------------------------------------------------------------
(* ActionLog: log_action, display_dashboard, clear_action_log *)

\* log_entry = f"[{current_time}] Action Logged: {message}"
log_entry(message) == [time |-> now, label |-> message, parses |-> TRUE]

\* The f.write calls of log_action: one, of log_entry + "\n".
WriteCalls(message) == << << log_entry(message), NL >> >>

\* FlushCalls for a file that is not buffered: one os.write per piece.
FlushCallsPerToken(buffer) == [ i \in 1..Len(buffer) |-> << buffer[i] >> ]

\* Closing f flushes its buffer: the whole text in one os.write (the line is
\* shorter than the buffer), none when the buffer is empty.
FlushCalls(buffer) == IF buffer = << >> THEN << >> ELSE << buffer >>

\* os.write on a file opened for appending
os_write(text, data) == text \o data

RECURSIVE Concat(_)
Concat(seqs) == IF seqs = << >> THEN << >> ELSE Head(seqs) \o Concat(Tail(seqs))

\* What closing f adds to the file when every write succeeds.
Flushed(message) == Concat(FlushCalls(Concat(WriteCalls(message))))

WriteResults == {"ok", "open_failed", "write_failed"}

\* log_action with a failed write still adding the line to the file.
log_action_failure_appends(message, r) ==
    /\ logExists' = (logExists \/ r # "open_failed")
    /\ logContent' = IF r # "open_failed"
                     THEN os_write(logContent, Flushed(message))
                     ELSE logContent
    /\ IF r = "ok"
       THEN appended' = appended + 1 /\ UNCHANGED failedWrites
       ELSE failedWrites' = failedWrites + 1 /\ UNCHANGED appended
    /\ UNCHANGED << printed, raceVars >>

\* log_action as one step.  open(LOG_FILE_PATH, "a") creates the file; an
\* IOError from open ("open_failed") or from the write at the close
\* ("write_failed") is caught and printed, and no text is added.
log_action(message, r) ==
    /\ logExists' = (logExists \/ r # "open_failed")
    /\ IF r = "ok"
       THEN /\ logContent' = os_write(logContent, Flushed(message))
            /\ appended' = appended + 1
            /\ UNCHANGED failedWrites
       ELSE /\ failedWrites' = failedWrites + 1
            /\ UNCHANGED << logContent, appended >>
    /\ UNCHANGED << printed, raceVars >>

\* seven_days_ago = now - timedelta(days=7)
seven_days == 7

\* The test display_dashboard makes on a line: line[1:20] parses and the
\* time is not before seven_days_ago.
Shown(line) ==
    /\ line # << >>
    /\ line[1].parses
    /\ line[1].time >= now - seven_days

\* `for line in f` raises UnicodeDecodeError when the decoder rejects the
\* text; it is raised outside the inner try and is no IOError, so it leaves
\* display_dashboard.  The file is shorter than one read of f, so the
\* decoder meets the bad bytes before the first line is printed.
dashboard_raises == logExists /\ ~Decodes(logContent)

\* display_dashboard: prints the lines that pass the test, in file order;
\* nothing of the log when the file does not exist.  Changes no file.
display_dashboard ==
    /\ printed' = IF logExists /\ ~dashboard_raises
                  THEN SelectSeq(Lines(logContent), Shown)
                  ELSE << >>
    /\ UNCHANGED << logExists, logContent, appended, failedWrites, raceVars >>

\* clear_action_log emptying the file in place of removing it.
clear_action_log_truncates(ok) ==
    /\ IF logExists /\ ok
       THEN /\ logContent' = << >>
            /\ clearPhase' = uploaderPc
            /\ preClearLog' = logContent
            /\ UNCHANGED logExists
       ELSE UNCHANGED << logExists, logContent, clearPhase, preClearLog >>
    /\ UNCHANGED << appended, failedWrites, printed >>

\* os.remove when the file exists; `ok` is whether no OSError was raised.
\* clearPhase and preClearLog record where the uploader's cycle was.
clear_action_log(ok) ==
    /\ IF logExists /\ ok
       THEN /\ logExists' = FALSE
            /\ logContent' = << >>
            /\ clearPhase' = uploaderPc
            /\ preClearLog' = logContent
       ELSE UNCHANGED << logExists, logContent, clearPhase, preClearLog >>
    /\ UNCHANGED << appended, failedWrites, printed >>

----------------------------------------------------------------------------
(* Coordinator and EventMonitor: the main thread *)

\* video_thread.start()
StartVideoThread ==
    /\ mainPc = "start_video"
    /\ mainPc' = "start_datadog"
    /\ videoPc' = "while"
    /\ UNCHANGED << stop_event, monitorEnd, logVars, countVars, proc, orphans,
                    rotated, videoDir, pruned, upVars,
                    raceVars >>

\* datadog_thread.start()
StartDatadogThread ==
    /\ mainPc = "start_datadog"
    /\ mainPc' = "open_device"
    /\ uploaderPc' = "while"
    /\ UNCHANGED << stop_event, monitorEnd, logVars, countVars, videoVars,
                    tick, log_content, uploadOutcome, cycleVars, raceVars >>

\* What main() does once monitor_robot_actions() has returned normally:
\* nothing; main() returns.
\* AfterMonitorReturns with a stop_event.set() before main() ends.
AfterMonitorReturnsSetsStop ==
    /\ mainPc' = "done"
    /\ stop_event' = TRUE

AfterMonitorReturns ==
    /\ mainPc' = "done"
    /\ UNCHANGED stop_event

\* dev = InputDevice(...): succeeds, or raises FileNotFoundError or
\* PermissionError, which monitor_robot_actions catches, prints and returns.
OpenDevice ==
    /\ mainPc = "open_device"
    /\ \E r \in {"ok", "FileNotFoundError", "PermissionError"} :
          IF r = "ok"
          THEN /\ mainPc' = "listening"
               /\ UNCHANGED << monitorEnd, stop_event >>
          ELSE /\ monitorEnd' = r
               /\ AfterMonitorReturns
    /\ UNCHANGED << logVars, countVars, videoVars, upVars, raceVars >>

\* Dispatches without the test of the key state.
DispatchesAnyKeystate(ev) ==
    /\ ev.type = EV_KEY
    /\ ev.code \in DOMAIN BUTTON_MAPPINGS

\* The test that decides whether an event is dispatched.
Dispatches(ev) ==
    /\ ev.type = EV_KEY
    /\ ev.code \in DOMAIN BUTTON_MAPPINGS
    /\ ev.value = key_down

\* The dispatch on the label of a dispatched event.
Dispatch(action_type) ==
    IF action_type = "display_dashboard"
    THEN display_dashboard
    ELSE IF action_type = "clear_log_history"
         THEN \E ok \in BOOLEAN : clear_action_log(ok)
         ELSE \E r \in WriteResults : log_action(action_type, r)

\* One iteration of `for event in dev.read_loop()`.
HandleEvent ==
    /\ mainPc = "listening"
    /\ nEvents < MaxEvents
    /\ \E ev \in [type : EventTypes, code : EventCodes, value : EventValues] :
          IF stop_event
          THEN /\ monitorEnd' = "returned"
               /\ AfterMonitorReturns
               /\ UNCHANGED << logVars, countVars, raceVars >>
          ELSE /\ nEvents' = nEvents + 1
               /\ pressed' = pressed +
                     (IF /\ ev.type = EV_KEY
                         /\ ev.value = key_down
                         /\ ev.code \in DOMAIN BUTTON_MAPPINGS
                         /\ BUTTON_MAPPINGS[ev.code] \notin ControlLabels
                      THEN 1 ELSE 0)
               /\ IF Dispatches(ev)
                  THEN /\ Dispatch(BUTTON_MAPPINGS[ev.code])
                       /\ UNCHANGED << now, lastOps, ioVars >>
                  ELSE UNCHANGED << logVars, appended, failedWrites, raceVars >>
               /\ UNCHANGED << mainVars, stop_event >>
    /\ UNCHANGED << videoVars, upVars >>

\* dev.read_loop() raises (device unplugged): `except Exception` prints and
\* monitor_robot_actions returns.
DeviceReadError ==
    /\ mainPc = "listening"
    /\ monitorEnd' = "Exception"
    /\ AfterMonitorReturns
    /\ UNCHANGED << logVars, countVars, videoVars, upVars, raceVars >>

\* Ctrl+C while the main thread is inside monitor_robot_actions():
\* KeyboardInterrupt is no Exception, so it reaches main()'s handler.
KeyboardInterrupt ==
    /\ mainPc \in {"open_device", "listening"}
    /\ monitorEnd' = "KeyboardInterrupt"
    /\ mainPc' = "except"
    /\ UNCHANGED << stop_event, logVars, countVars, videoVars, upVars, raceVars >>

\* stop_event.set() in the handler
SetStopEvent ==
    /\ mainPc = "except"
    /\ stop_event' = TRUE
    /\ mainPc' = "join_video"
    /\ UNCHANGED << monitorEnd, logVars, countVars, videoVars, upVars, raceVars >>

ThreadEnded(pc) == pc \in {"returned", "raised"}

\* video_thread.join()
JoinVideoThread ==
    /\ mainPc = "join_video"
    /\ ThreadEnded(videoPc)
    /\ mainPc' = "join_datadog"
    /\ UNCHANGED << stop_event, monitorEnd, logVars, countVars, videoVars,
                    upVars, raceVars >>

\* JoinDatadogThread followed by a stop_event.clear().
JoinDatadogThreadClears ==
    /\ mainPc = "join_datadog"
    /\ ThreadEnded(uploaderPc)
    /\ mainPc' = "done"
    /\ stop_event' = FALSE
    /\ UNCHANGED << monitorEnd, logVars, countVars, videoVars,
                    upVars, raceVars >>

\* datadog_thread.join()
JoinDatadogThread ==
    /\ mainPc = "join_datadog"
    /\ ThreadEnded(uploaderPc)
    /\ mainPc' = "done"
    /\ UNCHANGED << stop_event, monitorEnd, logVars, countVars, videoVars,
                    upVars, raceVars >>

----------------------------------------------------------------------------
(* VideoRotator: video_recorder_loop, and the capture subprocess *)

\* A subprocess is alive from Popen until it exits; proc.terminate() only
\* sends SIGTERM.
\* video_filename = f"myvideo_{timestamp}.h264"
video_filename == << "myvideo", now >>

\* libcamera-vid -o video_filepath: the file is created, or written anew
CreateFile(dir, name) ==
    { f \in dir : f.name # name } \cup
    { [name |-> name, mtime |-> now, isfile |-> TRUE] }

\* 3 * 24 * 3600 seconds, in days
retention == 3

\* os.path.isfile(filepath) and now - os.path.getmtime(filepath) > 3 days
Expired(f) == f.isfile /\ now - f.mtime > retention

\* delete_old_videos removing only the clips, the files named myvideo_*.
delete_old_videos_clips_only(dir) ==
    { f \in dir : ~(Expired(f) /\ f.name[1] = "myvideo") }

\* What delete_old_videos() leaves in the directory when it returns.
delete_old_videos(dir) == { f \in dir : ~Expired(f) }

\* What delete_old_videos() has removed when os.listdir, os.path.getmtime or
\* os.remove raises OSError: the expired files met before, in the order of
\* os.listdir, which is any order.
RemovedBeforeError(dir) ==
    LET expired == { f \in dir : Expired(f) }
    IN  { removed \in SUBSET expired : removed # expired \/ expired = {} }

Alive(p) == p \in {"running", "terminating"}

\* Capture subprocesses alive that this loop has started.
AliveCaptures == orphans + (IF Alive(proc) THEN 1 ELSE 0)

\* `while not stop_event.is_set()` of video_recorder_loop
VideoWhile ==
    /\ videoPc = "while"
    /\ videoPc' = IF stop_event THEN "returned" ELSE "popen"
    /\ UNCHANGED << stop_event, mainVars, logVars, countVars, proc, orphans,
                    rotated, videoDir, pruned, upVars,
                    raceVars >>

\* proc = subprocess.Popen([...]): a new subprocess, bound to `proc` (a
\* subprocess `proc` referred to before is no longer referred to), or an
\* OSError (no such executable), which nothing in the loop catches.
VideoPopen ==
    /\ videoPc = "popen"
    /\ \E spawned \in BOOLEAN :
          IF spawned
          THEN /\ orphans' = orphans + (IF Alive(proc) THEN 1 ELSE 0)
               /\ proc' = "running"
               /\ rotated' = (rotated \/ proc # "none")
               /\ videoDir' = CreateFile(videoDir, video_filename)
               /\ videoPc' = "poll"
          ELSE /\ videoPc' = "raised"
               /\ UNCHANGED << proc, orphans, rotated, videoDir >>
    /\ UNCHANGED pruned
    /\ UNCHANGED << stop_event, mainVars, logVars, countVars, upVars, raceVars >>

\* VideoPoll with the inner loop left although the subprocess still runs.
VideoPollLeavesEarly ==
    /\ videoPc = "poll"
    /\ videoPc' = "prune"
    /\ UNCHANGED << stop_event, mainVars, logVars, countVars, proc, orphans,
                    rotated, videoDir, pruned, upVars,
                    raceVars >>

\* `while proc.poll() is None`
VideoPoll ==
    /\ videoPc = "poll"
    /\ videoPc' = IF Alive(proc) THEN "is_set" ELSE "prune"
    /\ UNCHANGED << stop_event, mainVars, logVars, countVars, proc, orphans,
                    rotated, videoDir, pruned, upVars,
                    raceVars >>

\* `if stop_event.is_set(): proc.terminate(); break`, else on to the sleep.
\* terminate() signals a subprocess that has not exited and returns at once.
VideoIsSet ==
    /\ videoPc = "is_set"
    /\ IF stop_event
       THEN /\ proc' = IF proc = "running" THEN "terminating" ELSE proc
            /\ videoPc' = "prune"
       ELSE /\ videoPc' = "sleep"
            /\ UNCHANGED proc
    /\ UNCHANGED << stop_event, mainVars, logVars, countVars, orphans,
                    rotated, videoDir, pruned, upVars,
                    raceVars >>

\* time.sleep(1)
VideoSleep ==
    /\ videoPc = "sleep"
    /\ videoPc' = "poll"
    /\ UNCHANGED << stop_event, mainVars, logVars, countVars, proc, orphans,
                    rotated, videoDir, pruned, upVars,
                    raceVars >>

\* delete_old_videos(): returns, or os.listdir / os.remove raises OSError,
\* which nothing in the loop catches.
VideoPrune ==
    /\ videoPc = "prune"
    /\ \E ok \in BOOLEAN :
          IF ok
          THEN /\ videoPc' = "while"
               /\ videoDir' = delete_old_videos(videoDir)
               /\ pruned' = videoDir \ delete_old_videos(videoDir)
          ELSE /\ videoPc' = "raised"
               /\ \E removed \in RemovedBeforeError(videoDir) :
                     /\ videoDir' = videoDir \ removed
                     /\ pruned' = removed
    /\ UNCHANGED << stop_event, mainVars, logVars, countVars, proc, orphans,
                    rotated, upVars, raceVars >>

\* A capture subprocess exits: its duration (-t) has elapsed, it failed, or
\* it was signalled.
CaptureExits ==
    /\ AliveCaptures > 0
    /\ \E which \in {"proc", "orphan"} :
          /\ which = "proc" => Alive(proc)
          /\ which = "orphan" => orphans > 0
          /\ proc' = IF which = "proc" THEN "exited" ELSE proc
          /\ orphans' = IF which = "orphan" THEN orphans - 1 ELSE orphans
    /\ UNCHANGED << stop_event, mainVars, logVars, countVars, videoPc,
                    rotated, videoDir, pruned, upVars,
                    raceVars >>

----------------------------------------------------------------------------
(* LogUploader: periodic_datadog_uploader and upload_logs_to_datadog *)

\* `while not stop_event.is_set()` of periodic_datadog_uploader; entering
\* the body starts an upload cycle.
UploaderWhile ==
    /\ uploaderPc = "while"
    /\ IF stop_event
       THEN /\ uploaderPc' = "returned"
            /\ UNCHANGED << raceVars, cycleWifi, cycleExists >>
       ELSE /\ uploaderPc' = "wifi"
            /\ clearPhase' = "none"
            /\ preClearLog' = << >>
            /\ cycleWifi' = "unchecked"
            /\ cycleExists' = "unchecked"
    /\ UNCHANGED << stop_event, mainVars, logVars, countVars, videoVars,
                    tick, log_content, uploadOutcome, sleepsAfterStop >>

\* The upload has returned to periodic_datadog_uploader: `for _ in range(60)`
\* starts.
UploadReturns(outcome) ==
    /\ uploadOutcome' = outcome
    /\ uploaderPc' = "for"
    /\ tick' = 0

\* UploadWifi with the result of is_wifi_connected() not acted on.
UploadWifiIgnored ==
    /\ uploaderPc = "wifi"
    /\ \E is_wifi_connected \in BOOLEAN :
          /\ cycleWifi' = IF is_wifi_connected THEN "up" ELSE "down"
          /\ uploaderPc' = "exists"
          /\ UNCHANGED << tick, uploadOutcome >>
    /\ UNCHANGED << stop_event, mainVars, logVars, countVars, videoVars,
                    log_content, cycleExists, sleepsAfterStop, raceVars >>

\* `if not is_wifi_connected(): return`
UploadWifi ==
    /\ uploaderPc = "wifi"
    /\ \E is_wifi_connected \in BOOLEAN :
          /\ cycleWifi' = IF is_wifi_connected THEN "up" ELSE "down"
          /\ IF is_wifi_connected
             THEN /\ uploaderPc' = "exists"
                  /\ UNCHANGED << tick, uploadOutcome >>
             ELSE UploadReturns("no_wifi")
    /\ UNCHANGED << stop_event, mainVars, logVars, countVars, videoVars,
                    log_content, cycleExists, sleepsAfterStop, raceVars >>

\* `if not os.path.exists(LOG_FILE_PATH): return`
UploadExists ==
    /\ uploaderPc = "exists"
    /\ cycleExists' = IF logExists THEN "yes" ELSE "no"
    /\ IF logExists
       THEN /\ uploaderPc' = "open"
            /\ UNCHANGED << tick, uploadOutcome >>
       ELSE UploadReturns("no_file")
    /\ UNCHANGED << stop_event, mainVars, logVars, countVars, videoVars,
                    log_content, cycleWifi, sleepsAfterStop, raceVars >>

\* `with open(LOG_FILE_PATH, "r") as f: log_content = f.read()`, outside any
\* try: a file removed since the exists() test raises FileNotFoundError, an
\* unreadable one another OSError; the exception ends the thread.  After a
\* successful read the request is built and requests.post is called.
UploadOpen ==
    /\ uploaderPc = "open"
    /\ IF ~logExists
       THEN /\ uploaderPc' = "raised"
            /\ uploadOutcome' = "FileNotFoundError"
            /\ UNCHANGED log_content
       ELSE \E readable \in BOOLEAN :
               IF readable
               THEN /\ log_content' = logContent
                    /\ uploaderPc' = "post"
                    /\ UNCHANGED uploadOutcome
               ELSE /\ uploaderPc' = "raised"
                    /\ uploadOutcome' = "OSError"
                    /\ UNCHANGED log_content
    /\ UNCHANGED << stop_event, mainVars, logVars, countVars, videoVars,
                    tick, cycleVars, raceVars >>

\* requests.post(...) returns a response or raises; both branches print and
\* the upload returns.  No timeout is passed: the call returns when the
\* endpoint answers or the transport fails.
\* PostReturns with the log file removed once the collector accepted it.
PostReturnsRemovesLog ==
    /\ uploaderPc = "post"
    /\ \E r \in {"2xx", "non_2xx", "exception"} :
          /\ UploadReturns(r)
          /\ IF r = "2xx"
             THEN logExists' = FALSE /\ logContent' = << >>
             ELSE UNCHANGED << logExists, logContent >>
    /\ UNCHANGED << stop_event, mainVars, now, printed, lastOps, ioVars,
                    countVars, videoVars, log_content, cycleVars, raceVars >>

PostReturns ==
    /\ uploaderPc = "post"
    /\ \E r \in {"2xx", "non_2xx", "exception"} : UploadReturns(r)
    /\ UNCHANGED << stop_event, mainVars, logVars, countVars, videoVars,
                    log_content, cycleVars, raceVars >>

\* UploaderFor without `if stop_event.is_set(): break`.
UploaderForNoBreak ==
    /\ uploaderPc = "for"
    /\ uploaderPc' = IF tick = WaitIncrements THEN "while" ELSE "sleep"
    /\ UNCHANGED << stop_event, mainVars, logVars, countVars, videoVars,
                    tick, log_content, uploadOutcome, cycleVars, raceVars >>

\* One pass of `for _ in range(60): if stop_event.is_set(): break`
UploaderFor ==
    /\ uploaderPc = "for"
    /\ uploaderPc' = IF tick = WaitIncrements \/ stop_event
                     THEN "while" ELSE "sleep"
    /\ UNCHANGED << stop_event, mainVars, logVars, countVars, videoVars,
                    tick, log_content, uploadOutcome, cycleVars, raceVars >>

\* time.sleep(10)
UploaderSleep ==
    /\ uploaderPc = "sleep"
    /\ tick' = tick + 1
    /\ uploaderPc' = "for"
    /\ sleepsAfterStop' = sleepsAfterStop + (IF stop_event THEN 1 ELSE 0)
    /\ UNCHANGED << stop_event, mainVars, logVars, countVars, videoVars,
                    log_content, uploadOutcome, cycleWifi, cycleExists,
                    raceVars >>

----------------------------------------------------------------------------
MainStep ==
    \/ StartVideoThread
    \/ StartDatadogThread
    \/ OpenDevice
    \/ SetStopEvent
    \/ JoinVideoThread
    \/ JoinDatadogThread

VideoStep ==
    \/ VideoWhile
    \/ VideoPopen
    \/ VideoPoll
    \/ VideoIsSet
    \/ VideoSleep
    \/ VideoPrune

UploaderStep ==
    \/ UploaderWhile
    \/ UploadWifi
    \/ UploadExists
    \/ UploadOpen
    \/ UploaderFor
    \/ UploaderSleep

\* Steps taken when the environment acts: a key event, a device failure,
\* Ctrl+C, the endpoint's answer.
EnvironmentStep ==
    \/ HandleEvent
    \/ DeviceReadError
    \/ KeyboardInterrupt
    \/ PostReturns

Next ==
    \/ MainStep
    \/ VideoStep
    \/ UploaderStep
    \/ CaptureExits
    \/ EnvironmentStep

Spec == Init /\ [][Next]_vars

\* The interpreter schedules every thread that can run, and a capture
\* subprocess ends (its -t duration is finite).  Nothing obliges the
\* environment to act.
FairSpec ==
    /\ Spec
    /\ WF_vars(MainStep)
    /\ WF_vars(VideoStep)
    /\ WF_vars(UploaderStep)
    /\ WF_vars(CaptureExits)

----------------------------------------------------------------------------
(* log_action and the uploader's read, one system call per step.  The main *)
(* thread is in log_action and the uploader in the `with open(...)` of     *)
(* upload_logs_to_datadog; an os.write or os.read is one indivisible step. *)

AppendLabels == {"intersection", "lane_departure"}

\* What the two threads leave alone while they write and read the file.
ioFrame == << stop_event, monitorEnd, now, printed, lastOps, pressed, appended,
              failedWrites, videoVars, tick, uploadOutcome, cycleVars,
              raceVars >>

\* Both threads run; the file is absent, or holds whole records.
InitIO ==
    /\ stop_event = FALSE
    /\ mainPc = "listening"
    /\ monitorEnd = "none"
    /\ now = Now0
    /\ logExists \in BOOLEAN
    /\ logContent \in
          IF logExists
          THEN {<< >>} \cup { Flushed(m) : m \in AppendLabels }
          ELSE {<< >>}
    /\ printed = << >>
    /\ lastOps = << "none", "none" >>
    /\ fileBuffer = << >>
    /\ pendingWrites = << >>
    /\ readPos = 0
    /\ nEvents = 0
    /\ pressed = 0
    /\ appended = 0
    /\ failedWrites = 0
    /\ videoPc = "while"
    /\ proc = "none"
    /\ orphans = 0
    /\ rotated = FALSE
    /\ videoDir = {}
    /\ pruned = {}
    /\ uploaderPc = "exists"
    /\ tick = 0
    /\ log_content = << >>
    /\ uploadOutcome = "none"
    /\ cycleWifi = "up"
    /\ cycleExists = "unchecked"
    /\ sleepsAfterStop = 0
    /\ clearPhase = "none"
    /\ preClearLog = << >>

\* `with open(LOG_FILE_PATH, "a") as f: f.write(log_entry + "\n")`: the file
\* exists from here on, the text is in f's buffer.
AppendOpen ==
    /\ mainPc = "listening"
    /\ nEvents < MaxEvents
    /\ \E message \in AppendLabels :
          fileBuffer' = Concat(WriteCalls(message))
    /\ logExists' = TRUE
    /\ nEvents' = nEvents + 1
    /\ mainPc' = "log_close"
    /\ UNCHANGED << logContent, pendingWrites, readPos, uploaderPc,
                    log_content, ioFrame >>

\* Leaving the `with`: f is closed, which flushes the buffer.
AppendClose ==
    /\ mainPc = "log_close"
    /\ pendingWrites' = FlushCalls(fileBuffer)
    /\ fileBuffer' = << >>
    /\ mainPc' = "log_flush"
    /\ UNCHANGED << logExists, logContent, readPos, nEvents, uploaderPc,
                    log_content, ioFrame >>

\* One os.write of the flush, or the return to the monitor loop when none
\* is left.  A failed os.write writes nothing and ends the flush (IOError).
AppendOsWrite ==
    /\ mainPc = "log_flush"
    /\ IF pendingWrites = << >>
       THEN /\ mainPc' = "listening"
            /\ UNCHANGED << logContent, pendingWrites >>
       ELSE \E ok \in BOOLEAN :
               IF ok
               THEN /\ logContent' = os_write(logContent, Head(pendingWrites))
                    /\ pendingWrites' = Tail(pendingWrites)
                    /\ UNCHANGED mainPc
               ELSE /\ pendingWrites' = << >>
                    /\ UNCHANGED << logContent, mainPc >>
    /\ UNCHANGED << logExists, fileBuffer, readPos, nEvents, uploaderPc,
                    log_content, ioFrame >>

\* `if not os.path.exists(...)` passed and `open(LOG_FILE_PATH, "r")`
ReadOpen ==
    /\ uploaderPc = "exists"
    /\ logExists
    /\ uploaderPc' = "read"
    /\ readPos' = 0
    /\ log_content' = << >>
    /\ UNCHANGED << logExists, logContent, fileBuffer, pendingWrites, nEvents,
                    mainPc, ioFrame >>

\* One os.read of f.read(): it returns what the file holds beyond the read
\* position; f.read() returns when an os.read returns nothing.
ReadOsRead ==
    /\ uploaderPc = "read"
    /\ IF readPos = Len(logContent)
       THEN /\ uploaderPc' = "post"
            /\ UNCHANGED << readPos, log_content >>
       ELSE /\ log_content' =
                  log_content \o SubSeq(logContent, readPos + 1, Len(logContent))
            /\ readPos' = Len(logContent)
            /\ UNCHANGED uploaderPc
    /\ UNCHANGED << logExists, logContent, fileBuffer, pendingWrites, nEvents,
                    mainPc, ioFrame >>

\* The next upload cycle reaches the read again.
ReadAgain ==
    /\ uploaderPc = "post"
    /\ uploaderPc' = "exists"
    /\ UNCHANGED << logExists, logContent, fileBuffer, pendingWrites, readPos,
                    nEvents, mainPc, log_content, ioFrame >>

NextIO ==
    \/ AppendOpen
    \/ AppendClose
    \/ AppendOsWrite
    \/ ReadOpen
    \/ ReadOsRead
    \/ ReadAgain

IOSpec == InitIO /\ [][NextIO]_vars

----------------------------------------------------------------------------
(* ActionLog on its own: the monitor applies log_action, display_dashboard *)
(* and clear_action_log in any order to a file found with any content,     *)
(* while the local clock datetime.now() reads moves either way.            *)

\* lines of the file found at the start
MaxLines == 2

FoundLines ==
    { << >>, << CorruptLine >>, << Undecodable >> } \cup
    { << [time |-> t, label |-> "intersection", parses |-> TRUE] >> :
         t \in LogTimes }

RECURSIVE FoundFiles(_)
FoundFiles(n) ==
    IF n = 0
    THEN { << >> }
    ELSE LET shorter == FoundFiles(n - 1)
         IN  shorter \cup
             { text \o line \o << NL >> : text \in shorter, line \in FoundLines }

logFrame == << stop_event, mainVars, ioVars, pressed, videoVars, upVars >>

InitLog ==
    /\ stop_event = FALSE
    /\ mainPc = "listening"
    /\ monitorEnd = "none"
    /\ now \in ClockValues
    /\ logExists \in BOOLEAN
    /\ logContent \in IF logExists THEN FoundFiles(MaxLines) ELSE {<< >>}
    /\ printed = << >>
    /\ lastOps = << "none", "none" >>
    /\ fileBuffer = << >>
    /\ pendingWrites = << >>
    /\ readPos = 0
    /\ nEvents = 0
    /\ pressed = 0
    /\ appended = 0
    /\ failedWrites = 0
    /\ videoPc = "while"
    /\ proc = "none"
    /\ orphans = 0
    /\ rotated = FALSE
    /\ videoDir = {}
    /\ pruned = {}
    /\ uploaderPc = "while"
    /\ tick = 0
    /\ log_content = << >>
    /\ uploadOutcome = "none"
    /\ cycleWifi = "unchecked"
    /\ cycleExists = "unchecked"
    /\ sleepsAfterStop = 0
    /\ clearPhase = "none"
    /\ preClearLog = << >>

Did(op) == lastOps' = << lastOps[2], op >>

LogAppend ==
    /\ nEvents < MaxEvents
    /\ nEvents' = nEvents + 1
    /\ \E r \in WriteResults :
          /\ log_action("intersection", r)
          /\ Did(IF r = "ok" THEN "append" ELSE "append_failed")
    /\ UNCHANGED << now, logFrame >>

LogQuery ==
    /\ nEvents < MaxEvents
    /\ nEvents' = nEvents + 1
    /\ display_dashboard
    /\ Did(IF dashboard_raises THEN "query_raised" ELSE "query")
    /\ UNCHANGED << now, logFrame >>

LogClear ==
    /\ nEvents < MaxEvents
    /\ nEvents' = nEvents + 1
    /\ \E ok \in BOOLEAN :
          /\ clear_action_log(ok)
          /\ Did(IF ~logExists THEN "clear_absent"
                 ELSE IF ok THEN "clear" ELSE "clear_failed")
    /\ UNCHANGED << now, logFrame >>

\* datetime.now() is local wall-clock time: it advances, and it is set back
\* (time synchronisation, end of daylight saving time).
ClockStep ==
    /\ now' \in ClockValues \ {now}
    /\ Did("clock")
    /\ UNCHANGED << logExists, logContent, printed, nEvents, appended,
                    failedWrites, raceVars, logFrame >>

NextLog ==
    \/ LogAppend
    \/ LogQuery
    \/ LogClear
    \/ ClockStep

LogSpec == InitLog /\ [][NextLog]_vars

----------------------------------------------------------------------------
(* The rotator on its own: video_recorder_loop runs on a directory found   *)
(* with any content while the clock moves, until the operator interrupts.  *)

\* what time.time() and datetime.now() return, in days
VideoClockValues == {8, 10, 12}

FoundEntries ==
    { [name |-> << "myvideo", 5 >>, mtime |-> 5, isfile |-> TRUE],
      [name |-> << "myvideo", 7 >>, mtime |-> 7, isfile |-> TRUE],
      [name |-> << "notes", 0 >>,   mtime |-> 5, isfile |-> TRUE],
      [name |-> << "subdir", 0 >>,  mtime |-> 5, isfile |-> FALSE] }

InitVideo ==
    /\ stop_event = FALSE
    /\ mainPc = "listening"
    /\ monitorEnd = "none"
    /\ logExists = FALSE
    /\ logContent = << >>
    /\ now \in VideoClockValues
    /\ printed = << >>
    /\ lastOps = << "none", "none" >>
    /\ fileBuffer = << >>
    /\ pendingWrites = << >>
    /\ readPos = 0
    /\ nEvents = 0
    /\ pressed = 0
    /\ appended = 0
    /\ failedWrites = 0
    /\ videoPc = "while"
    /\ proc = "none"
    /\ orphans = 0
    /\ rotated = FALSE
    /\ videoDir \in SUBSET FoundEntries
    /\ pruned = {}
    /\ uploaderPc = "while"
    /\ tick = 0
    /\ log_content = << >>
    /\ uploadOutcome = "none"
    /\ cycleWifi = "unchecked"
    /\ cycleExists = "unchecked"
    /\ sleepsAfterStop = 0
    /\ clearPhase = "none"
    /\ preClearLog = << >>

\* time passes, or the clock is set
VideoClockStep ==
    /\ now' \in VideoClockValues \ {now}
    /\ UNCHANGED << stop_event, mainVars, logExists, logContent, printed,
                    lastOps, ioVars, countVars, videoVars, upVars, raceVars >>

NextVideo ==
    \/ VideoWhile
    \/ VideoPopen
    \/ VideoPoll
    \/ VideoIsSet
    \/ VideoSleep
    \/ VideoPrune
    \/ CaptureExits
    \/ VideoClockStep
    \/ KeyboardInterrupt
    \/ SetStopEvent
    \/ JoinVideoThread

VideoSpec == InitVideo /\ [][NextVideo]_vars

----------------------------------------------------------------------------
(* Properties *)

BothThreadsEnded == ThreadEnded(videoPc) /\ ThreadEnded(uploaderPc)

FatalDeviceError == monitorEnd \in {"FileNotFoundError", "PermissionError"}

IsPrefix(s, t) == Len(s) <= Len(t) /\ SubSeq(t, 1, Len(s)) = s

\* C1: once the event monitor has ended on a fatal device error (device not
\* found, permission denied) and main() has finished, stop_event is set and
\* the video thread and the uploader thread have both ended.
C1_DeviceErrorShutsDown ==
    (FatalDeviceError /\ mainPc = "done") =>
        (stop_event /\ BothThreadsEnded)

\* C2: after Ctrl+C during the event monitor, main() finishes only when both
\* background threads have ended, and both threads do eventually end.
C2_InterruptJoinsBoth ==
    /\ []((monitorEnd = "KeyboardInterrupt" /\ mainPc = "done")
             => BothThreadsEnded)
    /\ (monitorEnd = "KeyboardInterrupt") ~> BothThreadsEnded

\* C3: whenever video_recorder_loop has returned, no capture subprocess it
\* started is still alive.
C3_NoCaptureOutlivesRotator ==
    videoPc = "returned" => AliveCaptures = 0

\* C4: at most one capture subprocess started by the loop is alive at any
\* time, however many captures have been started.
C4_AtMostOneCapture ==
    AliveCaptures <= 1

C4_Witness ==
    rotated /\ proc = "running" /\ videoPc = "sleep"

\* C5: an upload cycle during which clear_action_log removed the file ships
\* log content read before the clear, or skips / ships what the log holds
\* after the clear; it never ends the uploader thread.
C5_ClearRaceIsBenign ==
    clearPhase \in {"wifi", "exists", "open", "post"} =>
        /\ uploadOutcome # "FileNotFoundError"
        /\ uploaderPc # "raised"
        /\ (clearPhase = "post" /\ uploaderPc = "post")
              => IsPrefix(log_content, preClearLog)

\* C6: the uploader thread ends only by returning with stop_event set; a
\* failure to read the log, a transport error or a non-2xx answer never
\* ends it.
C6_UploaderEndsOnlyOnStop ==
    ThreadEnded(uploaderPc) => (uploaderPc = "returned" /\ stop_event)

\* C7: the video thread ends only by returning with stop_event set; a failed
\* spawn of the capture subprocess never ends it.
C7_RotatorEndsOnlyOnStop ==
    ThreadEnded(videoPc) => (videoPc = "returned" /\ stop_event)

\* C8: once stop_event is set the uploader thread eventually ends, whether
\* or not the remote endpoint ever answers.
C8_UploaderEndsAfterStop ==
    stop_event ~> ThreadEnded(uploaderPc)

\* C9: stop_event starts clear and no step of any thread clears it once set.
C9_StopEventOneWay ==
    /\ ~stop_event
    /\ [][stop_event => stop_event']_vars

C9_Witness ==
    stop_event /\ mainPc = "done" /\ BothThreadsEnded

\* C10 (as stated): the number of records appended to the log equals the
\* number of handled key_down events of mapped, non-control codes.
C10_AppendedEqualsPresses ==
    appended = pressed

\* C10 (amended): every handled key_down event of a mapped, non-control code
\* appended one record or was one reported failed write; no other event
\* appended or tried to.
C10_AppendedPlusFailedEqualsPresses ==
    appended + failedWrites = pressed

C10_Witness ==
    /\ appended >= 1
    /\ failedWrites >= 1
    /\ nEvents > pressed


\* C11: a POST is in flight only in a cycle whose own is_wifi_connected()
\* returned True and whose own os.path.exists() test succeeded; a cycle in
\* which either test failed goes no further towards the POST.
C11_PostOnlyWhenConnectedAndPresent ==
    /\ uploaderPc = "post" => (cycleWifi = "up" /\ cycleExists = "yes")
    /\ cycleWifi = "down" => uploaderPc \notin {"exists", "open", "post"}
    /\ cycleExists = "no" => uploaderPc \notin {"open", "post"}

C11_Witness ==
    uploaderPc = "post" /\ uploadOutcome = "no_wifi"

\* C12: with stop_event set, the wait loop completes at most one more
\* time.sleep(10) and no new upload cycle starts.
C12_WaitObservesStop ==
    [][ /\ sleepsAfterStop' <= 1
        /\ (stop_event /\ uploaderPc \in {"for", "sleep", "while"})
              => uploaderPc' \in {"for", "sleep", "while", "returned"}
        /\ (stop_event /\ uploaderPc = "for") => uploaderPc' # "sleep"
      ]_vars

C12_Witness ==
    /\ sleepsAfterStop = 1
    /\ uploaderPc = "returned"
    /\ tick < WaitIncrements


\* A text made of whole records: every entry is followed by its newline.
CompleteRecords(text) ==
    /\ Len(text) % 2 = 0
    /\ \A i \in 1..Len(text) : (text[i] = NL) <=> (i % 2 = 0)

InWindow(line) ==
    /\ line # << >>
    /\ line[1].parses
    /\ line[1].time >= now - seven_days
    /\ line[1].time <= now

\* C14: a dashboard query returns, in file order, exactly the lines whose
\* timestamp parses and lies in [now - 7 days, now]; no line of the file,
\* however corrupted, aborts it, and an absent file gives an empty result.
C14_QueryReturnsWindow ==
    lastOps[2] \in {"query", "query_raised"} =>
        /\ lastOps[2] = "query"
        /\ printed = IF logExists
                     THEN SelectSeq(Lines(logContent), InWindow)
                     ELSE << >>

Clears == {"clear", "clear_failed", "clear_absent"}

\* C15 as stated: after any clear the log is absent and a query that
\* follows at once returns nothing; a clear of an absent log changes
\* nothing.
C15_ClearThenQueryEmpty ==
    /\ [](lastOps[2] \in Clears => ~logExists)
    /\ []((lastOps[1] \in Clears /\ lastOps[2] \in {"query", "query_raised"})
            => (lastOps[2] = "query" /\ printed = << >>))
    /\ [][ (~logExists /\ lastOps'[2] \in Clears)
             => (lastOps'[2] = "clear_absent"
                 /\ UNCHANGED << logExists, logContent >>) ]_vars

\* C15: after a clear whose os.remove raised nothing the log is absent and
\* a query that follows at once returns nothing; a clear whose os.remove
\* raised leaves the log as it was; a clear of an absent log changes
\* nothing.
C15_SuccessfulClearThenQueryEmpty ==
    /\ [](lastOps[2] \in {"clear", "clear_absent"} => ~logExists)
    /\ []((lastOps[1] \in {"clear", "clear_absent"}
              /\ lastOps[2] \in {"query", "query_raised"})
            => (lastOps[2] = "query" /\ printed = << >>))
    /\ [][ (lastOps'[2] \in {"clear_failed", "clear_absent"}
              /\ lastOps' # lastOps)
             => UNCHANGED << logExists, logContent >> ]_vars
    /\ [][ (~logExists /\ lastOps'[2] \in Clears)
             => lastOps'[2] = "clear_absent" ]_vars

C15_Witness ==
    /\ lastOps = << "clear", "query" >>
    /\ preClearLog # << >>
    /\ printed = << >>

InInnerLoop(pc) == pc \in {"poll", "is_set", "sleep"}

C18_ControlLabelsHaveOwnCodes ==
    mainPc = "listening" =>
        /\ \A i, j \in DOMAIN BUTTON_MAPPINGS_items :
              BUTTON_MAPPINGS_items[i][1] = BUTTON_MAPPINGS_items[j][1]
                 => i = j
        /\ \A label \in ControlLabels :
              \E code \in DOMAIN BUTTON_MAPPINGS :
                 /\ BUTTON_MAPPINGS[code] = label
                 /\ Dispatches([type |-> EV_KEY, code |-> code,
                                value |-> key_down])

\* C19: whenever stop_event is set, main() has caught a KeyboardInterrupt
\* raised while it ran monitor_robot_actions and has passed its
\* stop_event.set(); a monitor that ended in any other way left it unset.
C19_StopOnlyByInterrupt ==
    stop_event =>
        /\ monitorEnd = "KeyboardInterrupt"
        /\ mainPc \in {"join_video", "join_datadog", "done"}

C19_Witness ==
    /\ stop_event
    /\ monitorEnd = "KeyboardInterrupt"
    /\ nEvents > 0
    /\ ThreadEnded(videoPc)

\* C20: no step of the uploader, however its cycle ends, changes the log
\* file, and a cycle that reaches the POST sends the whole content the
\* file had when the cycle read it.
C20_UploaderLeavesLogAlone ==
    [][ (UploaderStep \/ PostReturns) =>
          /\ logExists' = logExists
          /\ logContent' = logContent
          /\ (uploaderPc # "post" /\ uploaderPc' = "post")
                => log_content' = logContent ]_vars

\* the POST of a cycle after a delivered one sends a record again
C20_Witness ==
    /\ uploaderPc = "post"
    /\ uploadOutcome = "2xx"
    /\ log_content # << >>
    /\ log_content = logContent

====
